---- MODULE Spec2Model ----
(***************************************************************************)
(* Model of merlin/graph/schema_io/tensorflow_metadata.py: the conversion  *)
(* between a Merlin schema (ordered mapping of ColumnSchema) and a         *)
(* TensorflowMetadata proto schema (sequence of Feature).                  *)
(*                                                                         *)
(* Python values are modelled as follows.                                  *)
(*   dict            a function whose DOMAIN is the set of keys            *)
(*   list            a sequence                                            *)
(*   None / unset    an empty sequence where a value is optional, or a     *)
(*                   key that is not in the DOMAIN of a message            *)
(*   Tags member     [form |-> "enum", value |-> its string value]         *)
(*   plain str tag   [form |-> "str",  value |-> the string]               *)
(*   dtype           [form, id]: a numpy dtype instance ("dtype", kind     *)
(*                   character), a numpy scalar type ("scalar", its name), *)
(*                   a str ("str", the string), a Python class ("class",   *)
(*                   its __name__), or an object with none of these        *)
(*                   ("none", "None")                                      *)
(***************************************************************************)
EXTENDS Integers, Sequences, FiniteSets, TLC

VARIABLES
    schema,         \* the MerlinSchema given to from_merlin_schema (ordered columns)
    proto_schema,   \* TensorflowMetadata.proto_schema.feature
    features,       \* local list of from_merlin_schema
    merlin_schema,  \* local MerlinSchema.column_schemas of to_merlin_schema
    i,              \* position of the running for loop
    pc,             \* where the program is
    err,            \* the exception that ended the call, <<>> when none
    ret,            \* what the last finished call returned, <<>> when nothing
    schema_in,      \* schema as it was when from_merlin_schema was called
    proto_in        \* proto_schema as it was when to_merlin_schema was called

vars == <<schema, proto_schema, features, merlin_schema, i, pc, err, ret,
          schema_in, proto_in>>

----------------------------------------------------------------------------
(* Bounds of the enumerated inputs *)

MaxCols == 2
MaxFeatures == 2
MaxTags == 1
MaxLength == 2
MaxEntries == 2

----------------------------------------------------------------------------
(* dict helpers *)

EmptyDict == [x \in {} |-> 0]

Has(m, k) == k \in DOMAIN m

Put(m, k, v) == [x \in (DOMAIN m) \cup {k} |-> IF x = k THEN v ELSE m[x]]

Without(m, k) == [x \in (DOMAIN m) \ {k} |-> m[x]]

\* bool(x) of an optional int: None and 0 are falsy
Truthy(opt) == Len(opt) = 1 /\ opt[1] # 0

\* d.get(k) as an optional value
Get(m, k) == IF Has(m, k) THEN <<m[k]>> ELSE <<>>

----------------------------------------------------------------------------
(* Module constants *)

DOMAIN_ATTRS == [INT |-> "int_domain", FLOAT |-> "float_domain"]

FEATURE_TYPES == [int |-> "INT", uint |-> "INT", float |-> "FLOAT"]

CATEGORICAL == [form |-> "enum", value |-> "categorical"]

StructTypeUrl == "type.googleapis.com/google.protobuf.Struct"

----------------------------------------------------------------------------
(* from_merlin_schema: column -> feature *)

\* numpy.core._dtype._kind_name
KindName(kind) ==
    CASE kind = "i" -> "int"
      [] kind = "u" -> "uint"
      [] kind = "f" -> "float"
      [] kind = "b" -> "bool"
      [] kind = "O" -> "object"
      [] OTHER -> "void"

\* type(dtype(1).item()).__name__ of a numpy scalar type
ItemTypeName(id) ==
    CASE id \in {"int32", "int64", "uint8"} -> "int"
      [] id \in {"float32", "float64"} -> "float"
      [] id = "bool_" -> "bool"
      [] OTHER -> "str"

_dtype_name(column_schema) ==
    LET dtype == column_schema.dtype IN
    CASE dtype.form = "dtype" -> KindName(dtype.id)
      [] dtype.form = "scalar" -> ItemTypeName(dtype.id)
      [] dtype.form = "str" -> dtype.id
      [] dtype.form = "class" -> dtype.id

\* variant: a dtype whose name is outside FEATURE_TYPES raises as well
_dtype_name_raises_mutant(column_schema) ==
    \/ column_schema.dtype.form \notin {"dtype", "scalar", "str", "class"}
    \/ ~Has(FEATURE_TYPES, _dtype_name(column_schema))

\* _dtype_name reaches its else branch and raises TypeError
_dtype_name_raises(column_schema) ==
    column_schema.dtype.form \notin {"dtype", "scalar", "str", "class"}

\* the TypeError of _dtype_name: the message formats the dtype only
DtypeError(column_schema) ==
    [kind |-> "TypeError",
     message |-> <<"unsupported dtype for column schema: ", column_schema.dtype.id>>]

\* variant: only the enum member counts
IsCategoricalMutant(column_schema) ==
    \E k \in 1..Len(column_schema.tags) : column_schema.tags[k] = CATEGORICAL

\* Tags.CATEGORICAL in tags or Tags.CATEGORICAL.value in tags
IsCategorical(column_schema) ==
    \/ \E k \in 1..Len(column_schema.tags) : column_schema.tags[k] = CATEGORICAL
    \/ \E k \in 1..Len(column_schema.tags) :
          column_schema.tags[k] = [form |-> "str", value |-> CATEGORICAL.value]

pb_int_domain(column_schema) ==
    LET domain == Get(column_schema.properties, "domain") IN
    IF domain = <<>> THEN <<>>
    ELSE << [name |-> column_schema.name,
             min |-> domain[1].min,
             max |-> domain[1].max,
             is_categorical |-> IsCategorical(column_schema)] >>

pb_float_domain(column_schema) ==
    LET domain == Get(column_schema.properties, "domain") IN
    IF domain = <<>> THEN <<>>
    ELSE << [name |-> column_schema.name,
             min |-> domain[1].min,
             max |-> domain[1].max] >>

\* json_format.ParseDict of one value into a google.protobuf.Value
ParseValue(k, v) ==
    IF k \in {"is_list", "is_ragged"}
    THEN [kind |-> "bool_value", bool_value |-> v]
    ELSE IF k \in {"value_count", "domain"}
    THEN [kind |-> "struct_value",
          struct_value |-> [j \in DOMAIN v |->
                               [kind |-> "number_value", number_value |-> v[j]]]]
    ELSE [kind |-> "number_value", number_value |-> v]

\* json_format.ParseDict(properties, Struct())
ParseDict(properties) == [k \in DOMAIN properties |-> ParseValue(k, properties[k])]

\* variant: is_ragged is not injected
pb_extra_metadata_mutant(column_schema) ==
    LET properties0 == Without(column_schema.properties, "domain")
        properties  == Put(properties0, "is_list", column_schema.is_list)
    IN  [form |-> "any", type_url |-> StructTypeUrl, value |-> ParseDict(properties)]

pb_extra_metadata(column_schema) ==
    LET properties0 == Without(column_schema.properties, "domain")
        properties1 == Put(properties0, "is_list", column_schema.is_list)
        properties  == Put(properties1, "is_ragged", column_schema.is_ragged)
    IN  [form |-> "any", type_url |-> StructTypeUrl, value |-> ParseDict(properties)]

pb_tag(column_schema) ==
    [k \in 1..Len(column_schema.tags) |-> column_schema.tags[k].value]

\* Feature(name=...): type unset (TYPE_UNKNOWN), no sub-message, empty annotation
Feature(name) ==
    [name |-> name,
     type |-> "TYPE_UNKNOWN",
     annotation |-> [tag |-> <<>>,
                     extra_metadata |-> [form |-> "list", entries |-> <<>>]]]

\* "if domain:" holds for every message pb_int_domain / pb_float_domain builds:
\* they carry the column's name
set_feature_domain(feature, column_schema) ==
    LET name == _dtype_name(column_schema) IN
    IF Has(FEATURE_TYPES, name)
    THEN LET pb_type == FEATURE_TYPES[name]
             typed == Put(feature, "type", pb_type)
             domain_attr == DOMAIN_ATTRS[pb_type]
             domain == IF pb_type = "INT" THEN pb_int_domain(column_schema)
                                          ELSE pb_float_domain(column_schema)
         IN  IF domain # <<>> THEN Put(typed, domain_attr, domain[1]) ELSE typed
    ELSE feature

\* variant: the bounds are tested for presence, not for truthiness
set_shape_mutant(feature, column_schema) ==
    IF column_schema.is_list
    THEN LET value_count == IF Has(column_schema.properties, "value_count")
                            THEN column_schema.properties["value_count"]
                            ELSE EmptyDict
             min_length == Get(value_count, "min")
             max_length == Get(value_count, "max")
         IN  IF min_length # <<>> /\ max_length # <<>> /\ min_length[1] = max_length[1]
             THEN Put(feature, "shape", min_length[1])
             ELSE IF min_length # <<>> /\ max_length # <<>> /\ min_length[1] < max_length[1]
             THEN Put(feature, "value_count", [min |-> min_length[1], max |-> max_length[1]])
             ELSE Put(feature, "value_count", [min |-> 0, max |-> 0])
    ELSE feature

\* pb_feature, lines 168-178: the shape or the value_count of a list column
set_shape(feature, column_schema) ==
    IF column_schema.is_list
    THEN LET value_count == IF Has(column_schema.properties, "value_count")
                            THEN column_schema.properties["value_count"]
                            ELSE EmptyDict
             min_length == Get(value_count, "min")
             max_length == Get(value_count, "max")
         IN  IF Truthy(min_length) /\ Truthy(max_length) /\ min_length[1] = max_length[1]
             THEN Put(feature, "shape", min_length[1])
             ELSE IF Truthy(min_length) /\ Truthy(max_length) /\ min_length[1] < max_length[1]
             THEN Put(feature, "value_count", [min |-> min_length[1], max |-> max_length[1]])
             ELSE Put(feature, "value_count", [min |-> 0, max |-> 0])
    ELSE feature

pb_feature(column_schema) ==
    LET feature0 == Feature(column_schema.name)
        feature1 == set_feature_domain(feature0, column_schema)
        feature2 == set_shape(feature1, column_schema)
    IN  [feature2 EXCEPT !.annotation.tag = pb_tag(column_schema),
                         !.annotation.extra_metadata = pb_extra_metadata(column_schema)]

----------------------------------------------------------------------------
(* to_merlin_schema: feature -> column *)

\* proto_utils.has_field: the sub-message is set on the feature
has_field(feature, attr) == Has(feature, attr)

\* variant: whichever sub-message is set is read
merlin_domain_mutant(feature) ==
    IF feature.type \in {"INT", "FLOAT"}
    THEN IF has_field(feature, "int_domain")
         THEN [min |-> feature["int_domain"].min, max |-> feature["int_domain"].max]
         ELSE IF has_field(feature, "float_domain")
         THEN [min |-> feature["float_domain"].min, max |-> feature["float_domain"].max]
         ELSE EmptyDict
    ELSE EmptyDict

merlin_domain(feature) ==
    IF Has(DOMAIN_ATTRS, feature.type) /\ has_field(feature, DOMAIN_ATTRS[feature.type])
    THEN LET domain_value == feature[DOMAIN_ATTRS[feature.type]]
         IN  [min |-> domain_value.min, max |-> domain_value.max]
    ELSE EmptyDict

\* one google.protobuf.Value as Struct.items() hands it out
ItemValue(v) ==
    CASE v.kind = "bool_value" -> v.bool_value
      [] v.kind = "number_value" -> v.number_value
      [] v.kind = "struct_value" ->
            [j \in DOMAIN v.struct_value |-> v.struct_value[j].number_value]

\* msg_struct.ParseFromString(bytes(extra_metadata.value)); dict(msg_struct.items())
StructItems(value) == [k \in DOMAIN value |-> ItemValue(value[k])]

\* variant: two entries are let through
merlin_properties_raises_mutant(feature) ==
    LET extra_metadata == feature.annotation.extra_metadata IN
    extra_metadata.form # "any" /\ Len(extra_metadata.entries) > 2

\* merlin_properties reaches its raise ValueError
merlin_properties_raises(feature) ==
    LET extra_metadata == feature.annotation.extra_metadata IN
    extra_metadata.form # "any" /\ Len(extra_metadata.entries) > 1

\* the ValueError of merlin_properties: the message formats the feature name and the length
ExtraMetadataError(feature) ==
    [kind |-> "ValueError",
     message |-> <<feature.name, ": extra_metadata should have 1 item, has ",
                   ToString(Len(feature.annotation.extra_metadata.entries))>>]

\* the properties object of merlin_properties is extra_metadata[0].value itself
UsesEntryValue(feature) ==
    LET extra_metadata == feature.annotation.extra_metadata IN
    extra_metadata.form # "any" /\ Len(extra_metadata.entries) = 1

\* the branches of merlin_properties that bind properties, before the domain is merged
UnwrappedProperties(feature) ==
    LET extra_metadata == feature.annotation.extra_metadata IN
    IF extra_metadata.form = "any" THEN StructItems(extra_metadata.value)
    ELSE IF Len(extra_metadata.entries) = 1 THEN extra_metadata.entries[1].value
    ELSE EmptyDict

merlin_properties(feature) ==
    LET properties == UnwrappedProperties(feature)
        domain == merlin_domain(feature)
    IN  IF DOMAIN domain # {} THEN Put(properties, "domain", domain) ELSE properties

\* numpy.int is the class int and numpy.float the class float
merlin_dtype(feature) ==
    IF feature.type = "INT" THEN [form |-> "class", id |-> "int"]
    ELSE IF feature.type = "FLOAT" THEN [form |-> "class", id |-> "float"]
    ELSE [form |-> "none", id |-> "None"]

\* properties.pop(k, False)
PopValue(properties, k) == IF Has(properties, k) THEN properties[k] ELSE FALSE

\* ColumnSchema(name, tags, properties, dtype, is_list, _is_ragged=is_ragged)
merlin_column(feature) ==
    LET properties == merlin_properties(feature) IN
    [name |-> feature.name,
     tags |-> feature.annotation.tag,
     properties |-> Without(Without(properties, "is_list"), "is_ragged"),
     dtype |-> merlin_dtype(feature),
     is_list |-> PopValue(properties, "is_list"),
     is_ragged |-> PopValue(properties, "is_ragged")]

\* the feature after merlin_column ran on it: on the single-entry branch
\* properties["domain"] = domain and the two pops act on the entry's own value
FeatureAfter(feature) ==
    IF UsesEntryValue(feature)
    THEN [feature EXCEPT !.annotation.extra_metadata.entries[1].value =
                            merlin_column(feature).properties]
    ELSE feature

\* variant: an existing key is kept (first wins)
DictSetMutant(columns, col_schema) ==
    IF \E k \in 1..Len(columns) : columns[k].name = col_schema.name
    THEN columns
    ELSE Append(columns, col_schema)

\* merlin_schema.column_schemas[col_schema.name] = col_schema
DictSet(columns, col_schema) ==
    IF \E k \in 1..Len(columns) : columns[k].name = col_schema.name
    THEN [k \in 1..Len(columns) |->
             IF columns[k].name = col_schema.name THEN col_schema ELSE columns[k]]
    ELSE Append(columns, col_schema)

----------------------------------------------------------------------------
(* The inputs: Merlin schemas built by a caller *)

NameOf == <<"a", "b", "c", "d">>

TagUniverse ==
    {CATEGORICAL,
     [form |-> "str", value |-> "categorical"],
     [form |-> "str", value |-> "item_id"]}

TagSeqs == UNION {[1..n -> TagUniverse] : n \in 0..MaxTags}

IntDtypes == {[form |-> "dtype", id |-> "i"], [form |-> "dtype", id |-> "u"],
              [form |-> "scalar", id |-> "int64"]}

FloatDtypes == {[form |-> "scalar", id |-> "float32"], [form |-> "str", id |-> "float"]}

\* dtypes that have a name, which is none of int, uint, float
OtherDtypes == {[form |-> "class", id |-> "str"], [form |-> "dtype", id |-> "O"]}

\* dtype=None, the default of ColumnSchema
NoneDtype == [form |-> "none", id |-> "None"]

Dtypes == IntDtypes \cup FloatDtypes \cup OtherDtypes \cup {NoneDtype}

DomainOpts == {<<>>, <<[min |-> 0, max |-> 9]>>, <<[min |-> 3, max |-> 3]>>}

Lengths == 0..MaxLength

\* properties["value_count"]: unset, or a dict with "min", "max" or both
ValueCountOpts ==
    {<<>>}
    \cup {<<[min |-> a]>> : a \in Lengths}
    \cup {<<[max |-> b]>> : b \in Lengths}
    \cup {<<[min |-> a, max |-> b]>> : a \in Lengths, b \in Lengths}

Properties(domain, value_count) ==
    LET p0 == IF domain # <<>> THEN Put(EmptyDict, "domain", domain[1]) ELSE EmptyDict
    IN  IF value_count # <<>> THEN Put(p0, "value_count", value_count[1]) ELSE p0

ColumnSchema(name, tags, properties, dtype, is_list, is_ragged) ==
    [name |-> name, tags |-> tags, properties |-> properties, dtype |-> dtype,
     is_list |-> is_list, is_ragged |-> is_ragged]

\* is_ragged implies is_list
ListFlags == {<<FALSE, FALSE>>, <<TRUE, FALSE>>, <<TRUE, TRUE>>}

\* columns that vary dtype, tags and domain
TypeColumns(name) ==
    {ColumnSchema(name, tags, Properties(domain, <<>>), dtype, FALSE, FALSE) :
        tags \in TagSeqs, domain \in DomainOpts, dtype \in Dtypes}

\* columns that vary the list flags and the value_count
ShapeColumns(name) ==
    {ColumnSchema(name, <<>>, Properties(td[2], value_count), td[1], fl[1], fl[2]) :
        td \in {<<[form |-> "scalar", id |-> "int64"], <<[min |-> 0, max |-> 9]>> >>,
                <<[form |-> "str", id |-> "float"], <<>> >>},
        value_count \in ValueCountOpts, fl \in ListFlags}

\* the columns that fill the rest of a schema
PlainColumns(name) ==
    {ColumnSchema(name, <<CATEGORICAL>>,
                  Put(Properties(<<[min |-> 0, max |-> 9]>>, <<>>), "num_buckets", 10),
                  [form |-> "dtype", id |-> "i"], TRUE, TRUE),
     ColumnSchema(name, <<>>, EmptyDict, [form |-> "class", id |-> "str"], FALSE, FALSE),
     ColumnSchema(name, <<>>, EmptyDict, NoneDtype, FALSE, FALSE)}

\* the names of an n-column schema, in one of two orders
NameOrders(n) == {[k \in 1..n |-> NameOf[k]], [k \in 1..n |-> NameOf[n + 1 - k]]}

PlainSeqs(names) ==
    {f \in [1..Len(names) -> UNION {PlainColumns(names[k]) : k \in 1..Len(names)}] :
        \A k \in 1..Len(names) : f[k].name = names[k]}

\* the name sequences of schemas of up to MaxCols columns
NameSeqs == UNION {NameOrders(n) : n \in 0..MaxCols}

\* schema is a Merlin schema of distinct column names, one column of which
\* ranges over TypeColumns and ShapeColumns
InitMerlinSchema ==
    \E names \in NameSeqs :
        \/ /\ names = <<>>
           /\ schema = <<>>
        \/ \E r \in 1..Len(names) :
           \E c \in TypeColumns(names[r]) \cup ShapeColumns(names[r]) :
           \E rest \in PlainSeqs(names) :
              schema = [k \in 1..Len(names) |-> IF k = r THEN c ELSE rest[k]]

----------------------------------------------------------------------------
(* The inputs: proto schemas built by a collaborator (parsed text or JSON) *)

FeatureNames == {"a", "b"}

FeatureTypes == {"TYPE_UNKNOWN", "BYTES", "INT", "FLOAT"}

\* what an extension payload can hold
Payloads ==
    {EmptyDict,
     [is_list |-> TRUE, is_ragged |-> FALSE],
     [is_list |-> TRUE, is_ragged |-> TRUE, num_buckets |-> 10],
     [domain |-> [min |-> 5, max |-> 6]]}

\* the typed container pb_extra_metadata builds
TypedSlot(payload) ==
    [form |-> "any", type_url |-> StructTypeUrl, value |-> ParseDict(payload)]

\* a list of untyped entries
ListSlot(values) ==
    [form |-> "list", entries |-> [k \in 1..Len(values) |-> [value |-> values[k]]]]

Slots ==
    {TypedSlot(p) : p \in Payloads}
    \cup {ListSlot(<<>>)}
    \cup {ListSlot(<<p>>) : p \in Payloads}
    \cup UNION {{ListSlot(vs) : vs \in [1..n -> {EmptyDict, [is_list |-> TRUE]}]} :
                   n \in 2..MaxEntries}

ProtoFeature(name, type, int_domain, float_domain, tag, extra_metadata) ==
    LET f0 == [name |-> name, type |-> type,
               annotation |-> [tag |-> tag, extra_metadata |-> extra_metadata]]
        f1 == IF int_domain THEN
                 Put(f0, "int_domain",
                     [name |-> name, min |-> 1, max |-> 7, is_categorical |-> FALSE])
              ELSE f0
    IN  IF float_domain THEN Put(f1, "float_domain", [name |-> name, min |-> 2, max |-> 8])
        ELSE f1

\* features that vary the type and the domain sub-messages
DomainFeatures(name) ==
    {ProtoFeature(name, type, int_domain, float_domain, <<>>, slot) :
        type \in FeatureTypes, int_domain \in BOOLEAN, float_domain \in BOOLEAN,
        slot \in {TypedSlot([is_list |-> TRUE, is_ragged |-> FALSE]),
                  ListSlot(<<[domain |-> [min |-> 5, max |-> 6]]>>),
                  ListSlot(<<>>)}}

\* features that vary the extension slot
SlotFeatures(name) ==
    {ProtoFeature(name, ti[1], ti[2], FALSE, tag, slot) :
        ti \in {<<"INT", TRUE>>, <<"BYTES", FALSE>>},
        tag \in {<<>>, <<"categorical", "item_id">>},
        slot \in Slots}

\* the features that fill the rest of a schema
PlainFeatures(name) ==
    {ProtoFeature(name, "INT", TRUE, FALSE, <<"categorical">>,
                  TypedSlot([is_list |-> TRUE, is_ragged |-> TRUE, num_buckets |-> 10])),
     ProtoFeature(name, "FLOAT", FALSE, TRUE, <<>>, ListSlot(<<[is_list |-> TRUE]>>)),
     ProtoFeature(name, "INT", FALSE, FALSE, <<>>, ListSlot(<<EmptyDict, EmptyDict>>))}

\* proto_schema is a feature sequence of up to MaxFeatures features, names
\* may repeat, one feature of which ranges over DomainFeatures and SlotFeatures
InitProtoSchema ==
    \E n \in 0..MaxFeatures :
        \/ /\ n = 0
           /\ proto_schema = <<>>
        \/ \E r \in 1..n :
           \E x \in FeatureNames :
           \E c \in DomainFeatures(x) \cup SlotFeatures(x) :
           \E rest \in [1..n -> UNION {PlainFeatures(y) : y \in FeatureNames}] :
              proto_schema = [k \in 1..n |-> IF k = r THEN c ELSE rest[k]]

----------------------------------------------------------------------------
(* The program *)

Init ==
    /\ \/ /\ InitMerlinSchema
          /\ proto_schema = <<>>
          /\ pc = "from_loop"
       \/ /\ schema = <<>>
          /\ InitProtoSchema
          /\ pc = "to_loop"
    /\ schema_in = schema
    /\ proto_in = proto_schema
    /\ features = <<>>
    /\ merlin_schema = <<>>
    /\ i = 1
    /\ err = <<>>
    /\ ret = <<>>

\* variant: the feature is inserted at the front
FromIterMutant ==
    /\ pc = "from_loop"
    /\ i <= Len(schema)
    /\ ~_dtype_name_raises(schema[i])
    /\ features' = <<pb_feature(schema[i])>> \o features
    /\ i' = i + 1
    /\ UNCHANGED <<schema, proto_schema, merlin_schema, pc, err, ret, schema_in, proto_in>>

\* from_merlin_schema, line 88: one turn of the loop
FromIter ==
    /\ pc = "from_loop"
    /\ i <= Len(schema)
    /\ ~_dtype_name_raises(schema[i])
    /\ features' = Append(features, pb_feature(schema[i]))
    /\ i' = i + 1
    /\ UNCHANGED <<schema, proto_schema, merlin_schema, pc, err, ret, schema_in, proto_in>>

\* from_merlin_schema, line 88: pb_feature raises out of the call
FromRaise ==
    /\ pc = "from_loop"
    /\ i <= Len(schema)
    /\ _dtype_name_raises(schema[i])
    /\ err' = <<DtypeError(schema[i])>>
    /\ pc' = "from_raised"
    /\ UNCHANGED <<schema, proto_schema, features, merlin_schema, i, ret,
                   schema_in, proto_in>>

\* from_merlin_schema, lines 90-92
FromReturn ==
    /\ pc = "from_loop"
    /\ i > Len(schema)
    /\ proto_schema' = features
    /\ ret' = <<features>>
    /\ pc' = "from_done"
    /\ UNCHANGED <<schema, features, merlin_schema, i, err, schema_in, proto_in>>

\* to_merlin_schema called on the TensorflowMetadata from_merlin_schema returned
ToCall ==
    /\ pc = "from_done"
    /\ proto_in' = proto_schema
    /\ merlin_schema' = <<>>
    /\ i' = 1
    /\ ret' = <<>>
    /\ pc' = "to_loop"
    /\ UNCHANGED <<schema, proto_schema, features, err, schema_in>>

\* to_merlin_schema, lines 98-99: one turn of the loop
ToIter ==
    /\ pc = "to_loop"
    /\ i <= Len(proto_schema)
    /\ ~merlin_properties_raises(proto_schema[i])
    /\ merlin_schema' = DictSet(merlin_schema, merlin_column(proto_schema[i]))
    /\ proto_schema' = [proto_schema EXCEPT ![i] = FeatureAfter(@)]
    /\ i' = i + 1
    /\ UNCHANGED <<schema, features, pc, err, ret, schema_in, proto_in>>

\* to_merlin_schema, line 98: merlin_column raises out of the call
ToRaise ==
    /\ pc = "to_loop"
    /\ i <= Len(proto_schema)
    /\ merlin_properties_raises(proto_schema[i])
    /\ err' = <<ExtraMetadataError(proto_schema[i])>>
    /\ pc' = "to_raised"
    /\ UNCHANGED <<schema, proto_schema, features, merlin_schema, i, ret,
                   schema_in, proto_in>>

\* to_merlin_schema, line 101
ToReturn ==
    /\ pc = "to_loop"
    /\ i > Len(proto_schema)
    /\ ret' = <<merlin_schema>>
    /\ pc' = "to_done"
    /\ UNCHANGED <<schema, proto_schema, features, merlin_schema, i, err,
                   schema_in, proto_in>>

Next ==
    \/ FromIter
    \/ FromRaise
    \/ FromReturn
    \/ ToCall
    \/ ToIter
    \/ ToRaise
    \/ ToReturn

Spec == Init /\ [][Next]_vars

----------------------------------------------------------------------------
(* Properties *)

\* the dtype is of the int family or of the float family
Supported(column_schema) == column_schema.dtype \in IntDtypes \cup FloatDtypes

\* the tags of a column as their string values
TagValues(column_schema) ==
    [t \in 1..Len(column_schema.tags) |-> column_schema.tags[t].value]

\* from_merlin_schema has built a feature for these columns
Built == IF pc = "from_raised" THEN {} ELSE 1..Len(features)

InToMerlin == pc \in {"to_loop", "to_done", "to_raised"}

\* to_merlin_schema has turned these features into columns
Processed == IF InToMerlin THEN 1..(i - 1) ELSE {}

\* feature k is the last processed feature of its name
LastOfName(k) == \A m \in Processed : m > k => proto_in[m].name # proto_in[k].name

ColumnNamed(name) ==
    merlin_schema[CHOOSE j \in 1..Len(merlin_schema) : merlin_schema[j].name = name]

Mentions(message, name) == \E m \in 1..Len(message) : message[m] = name

\* C1: the round trip to_merlin_schema(from_merlin_schema(s)) of a schema whose
\* columns all have an int-family or float-family dtype holds, for every column
\* of s, a column of the same name, tags (as strings), is_list, is_ragged and,
\* when the column had a domain, the same min and max under properties["domain"].
RoundTripPreserves ==
    (pc = "to_done" /\ \A k \in 1..Len(schema_in) : Supported(schema_in[k])) =>
        \A k \in 1..Len(schema_in) :
            \E j \in 1..Len(ret[1]) :
                LET c == schema_in[k]
                    d == ret[1][j]
                IN  /\ d.name = c.name
                    /\ d.tags = TagValues(c)
                    /\ d.is_list = c.is_list
                    /\ d.is_ragged = c.is_ragged
                    /\ Has(c.properties, "domain") =>
                          /\ Has(d.properties, "domain")
                          /\ d.properties["domain"].min = c.properties["domain"].min
                          /\ d.properties["domain"].max = c.properties["domain"].max

RoundTripWitness ==
    /\ pc = "to_done"
    /\ Len(schema_in) = 2
    /\ \A k \in 1..2 : Supported(schema_in[k])
    /\ \E k \in 1..2 : schema_in[k].is_ragged /\ Has(schema_in[k].properties, "domain")
    /\ \E k \in 1..2 : schema_in[k].tags = <<CATEGORICAL>>
    /\ Len(ret[1]) = 2

\* the bounds of properties["value_count"] of a column
MinLength(c) ==
    IF Has(c.properties, "value_count") /\ Has(c.properties["value_count"], "min")
    THEN <<c.properties["value_count"].min>> ELSE <<>>

MaxLengthOf(c) ==
    IF Has(c.properties, "value_count") /\ Has(c.properties["value_count"], "max")
    THEN <<c.properties["value_count"].max>> ELSE <<>>

BothPresent(c) == MinLength(c) # <<>> /\ MaxLengthOf(c) # <<>>

IsFixedShape(f, n) == Has(f, "shape") /\ f["shape"] = n /\ ~Has(f, "value_count")

IsValueCount(f, a, b) ==
    Has(f, "value_count") /\ f["value_count"] = [min |-> a, max |-> b] /\ ~Has(f, "shape")

\* C2 as stated: (a) both present, nonzero and equal: a fixed shape; (b) both
\* present and min < max: value_count{min, max}; (c) every other case: the
\* sentinel value_count{0, 0}; a column that is not a list gets neither.
ShapeEncodingAsStated ==
    \A k \in Built :
        LET c == schema[k]
            f == features[k]
        IN  IF ~c.is_list THEN ~Has(f, "shape") /\ ~Has(f, "value_count")
            ELSE IF BothPresent(c) /\ MinLength(c)[1] # 0 /\ MaxLengthOf(c)[1] # 0
                    /\ MinLength(c)[1] = MaxLengthOf(c)[1]
            THEN IsFixedShape(f, MinLength(c)[1])
            ELSE IF BothPresent(c) /\ MinLength(c)[1] < MaxLengthOf(c)[1]
            THEN IsValueCount(f, MinLength(c)[1], MaxLengthOf(c)[1])
            ELSE IsValueCount(f, 0, 0)

\* C2 amended: (b) needs both bounds nonzero as well; a list column with
\* min < max of which one bound is zero gets the sentinel value_count{0, 0}.
ShapeEncoding ==
    \A k \in Built :
        LET c == schema[k]
            f == features[k]
        IN  IF ~c.is_list THEN ~Has(f, "shape") /\ ~Has(f, "value_count")
            ELSE IF BothPresent(c) /\ MinLength(c)[1] # 0 /\ MaxLengthOf(c)[1] # 0
                    /\ MinLength(c)[1] = MaxLengthOf(c)[1]
            THEN IsFixedShape(f, MinLength(c)[1])
            ELSE IF BothPresent(c) /\ MinLength(c)[1] # 0 /\ MaxLengthOf(c)[1] # 0
                    /\ MinLength(c)[1] < MaxLengthOf(c)[1]
            THEN IsValueCount(f, MinLength(c)[1], MaxLengthOf(c)[1])
            ELSE IsValueCount(f, 0, 0)

ShapeEncodingWitness ==
    \E k \in Built :
        /\ schema[k].is_list
        /\ MinLength(schema[k]) = <<0>>
        /\ MaxLengthOf(schema[k]) = <<2>>
        /\ IsValueCount(features[k], 0, 0)

\* C3: an int-family column with properties["domain"] gets an int_domain whose
\* is_categorical is true iff its tags hold CATEGORICAL, as the enum member or
\* as its string; a float-family column gets a float_domain without the flag.
CategoricalFlag ==
    \A k \in Built :
        LET c == schema[k]
            f == features[k]
        IN  /\ (c.dtype \in IntDtypes /\ Has(c.properties, "domain")) =>
                  /\ Has(f, "int_domain")
                  /\ f["int_domain"].is_categorical <=>
                        \E t \in 1..Len(c.tags) : c.tags[t].value = "categorical"
            /\ (c.dtype \in FloatDtypes /\ Has(c.properties, "domain")) =>
                  /\ Has(f, "float_domain")
                  /\ ~Has(f, "int_domain")
                  /\ ~Has(f["float_domain"], "is_categorical")

CategoricalFlagWitness ==
    \E k \in Built :
        /\ schema[k].dtype \in IntDtypes
        /\ schema[k].tags = <<[form |-> "str", value |-> "categorical"]>>
        /\ Has(features[k], "int_domain")
        /\ features[k]["int_domain"].is_categorical

\* the properties a feature's extension slot stands for, by the form of the slot
SlotProperties(f) ==
    LET slot == f.annotation.extra_metadata IN
    IF slot.form = "any" THEN StructItems(slot.value)
    ELSE IF Len(slot.entries) = 0 THEN EmptyDict
    ELSE slot.entries[1].value

Ambiguous(f) ==
    LET slot == f.annotation.extra_metadata IN
    slot.form # "any" /\ Len(slot.entries) > 1

\* what the column built from a feature holds of a mapping: every key but
\* "domain", "is_list", "is_ragged" as a property, and the two flags
CarriesMapping(col, mapping) ==
    /\ DOMAIN col.properties \ {"domain"} = DOMAIN mapping \ {"domain", "is_list", "is_ragged"}
    /\ \A key \in DOMAIN col.properties \ {"domain"} : col.properties[key] = mapping[key]
    /\ col.is_list = (Has(mapping, "is_list") /\ mapping["is_list"])
    /\ col.is_ragged = (Has(mapping, "is_ragged") /\ mapping["is_ragged"])

\* C4: to_merlin_schema takes the properties of a feature from its extension
\* slot: the unwrapped typed container, the empty mapping for zero entries, the
\* raw value of a single untyped entry; it raises the extra_metadata ValueError
\* if and only if the slot is not the typed container and holds more than one
\* entry.
ExtensionDispatch ==
    /\ \A k \in Processed :
          /\ ~Ambiguous(proto_in[k])
          /\ LastOfName(k) =>
                CarriesMapping(ColumnNamed(proto_in[k].name), SlotProperties(proto_in[k]))
    /\ pc = "to_raised" =>
          /\ Ambiguous(proto_in[i])
          /\ err # <<>>
          /\ err[1].kind = "ValueError"
    /\ (InToMerlin /\ pc # "to_raised") => err = <<>>

ExtensionDispatchWitness ==
    /\ pc = "to_raised"
    /\ i = 2
    /\ proto_in[1].annotation.extra_metadata.form = "list"
    /\ Len(proto_in[1].annotation.extra_metadata.entries) = 1
    /\ Len(proto_in[2].annotation.extra_metadata.entries) = 2
    /\ merlin_schema[1].is_list

\* C5 as stated: from_merlin_schema raises for every schema that holds a column
\* whose dtype is neither of the int family nor of the float family.
UnsupportedDtypeAlwaysRaises ==
    pc = "from_done" => \A k \in 1..Len(schema) : Supported(schema[k])

\* C5 amended: from_merlin_schema raises the unsupported-dtype TypeError exactly
\* for a column whose dtype has no name at all (no kind, no item, not a str, no
\* __name__); a column whose dtype has a name other than int, uint or float gets
\* a feature with the type left unset and no domain, and the call returns.
UnsupportedDtype ==
    /\ pc = "from_raised" =>
          /\ schema[i].dtype = NoneDtype
          /\ err # <<>>
          /\ err[1].kind = "TypeError"
    /\ \A k \in Built :
          /\ schema[k].dtype # NoneDtype
          /\ schema[k].dtype \in OtherDtypes =>
                /\ features[k].type = "TYPE_UNKNOWN"
                /\ ~Has(features[k], "int_domain")
                /\ ~Has(features[k], "float_domain")
    /\ pc = "from_done" => err = <<>> /\ Len(ret[1]) = Len(schema)

UnsupportedDtypeWitness ==
    /\ pc = "from_done"
    /\ \E k \in 1..Len(schema) :
          /\ schema[k].dtype = [form |-> "class", id |-> "str"]
          /\ Has(schema[k].properties, "domain")
          /\ ret[1][k].type = "TYPE_UNKNOWN"

\* C6: from_merlin_schema and to_merlin_schema leave their input unchanged on
\* every path: the columns of the schema, and every feature with its extension
\* payload, are after the call what they were before it.
InputNeverMutated ==
    /\ schema = schema_in
    /\ InToMerlin => proto_schema = proto_in

\* C7: from_merlin_schema returns one feature per column, in the order of the
\* columns, each with the name of its column; no columns give no features, and
\* to_merlin_schema of no features gives no columns.
ForwardOrchestration ==
    /\ pc = "from_loop" => Len(features) = i - 1
    /\ \A k \in Built : features[k].name = schema[k].name
    /\ pc = "from_done" =>
          /\ Len(ret[1]) = Len(schema)
          /\ \A k \in 1..Len(schema) : ret[1][k].name = schema[k].name
    /\ (pc = "to_done" /\ proto_in = <<>>) => ret[1] = <<>>

ForwardOrchestrationWitness ==
    /\ pc = "from_done"
    /\ Len(schema) = 2
    /\ ret[1][1].name = "b"
    /\ ret[1][2].name = "a"

\* C8: an unsupported-dtype or extra_metadata error ends the call at the first
\* offending column or feature, nothing is returned, and the error carries the
\* name of that column or feature.
ErrorsNameTheOffender ==
    /\ pc = "from_raised" =>
          /\ ret = <<>>
          /\ \A k \in 1..(i - 1) : ~_dtype_name_raises(schema[k])
          /\ _dtype_name_raises(schema[i])
          /\ Mentions(err[1].message, schema[i].name)
    /\ pc = "to_raised" =>
          /\ ret = <<>>
          /\ \A k \in 1..(i - 1) : ~Ambiguous(proto_in[k])
          /\ Ambiguous(proto_in[i])
          /\ Mentions(err[1].message, proto_in[i].name)

\* C9: to_merlin_schema returns a mapping whose keys are exactly the names of
\* the features, and the column under a name is the one built from the last
\* feature of that name.
LastWins ==
    pc = "to_done" =>
        /\ {ret[1][j].name : j \in 1..Len(ret[1])} =
              {proto_in[k].name : k \in 1..Len(proto_in)}
        /\ \A j1, j2 \in 1..Len(ret[1]) : ret[1][j1].name = ret[1][j2].name => j1 = j2
        /\ \A k \in 1..Len(proto_in) :
              LastOfName(k) =>
                 \E j \in 1..Len(ret[1]) : ret[1][j] = merlin_column(proto_in[k])

LastWinsWitness ==
    /\ pc = "to_done"
    /\ Len(proto_in) = 2
    /\ proto_in[1].name = proto_in[2].name
    /\ proto_in[1].type # proto_in[2].type
    /\ Len(ret[1]) = 1

\* the domain sub-message that matches the type of a feature is set
MatchingDomain(f) ==
    \/ f.type = "INT" /\ Has(f, "int_domain")
    \/ f.type = "FLOAT" /\ Has(f, "float_domain")

\* C10: to_merlin_schema sets properties["domain"] = {min, max} from the
\* sub-message that matches an INT or FLOAT type when it is set; otherwise no
\* domain is merged into the properties. The dtype is the integer type for INT,
\* the float type for FLOAT and None otherwise.
ReverseDomain ==
    \A k \in Processed :
        LastOfName(k) =>
            LET f == proto_in[k]
                col == ColumnNamed(f.name)
                sub == IF f.type = "INT" THEN f["int_domain"] ELSE f["float_domain"]
            IN  /\ MatchingDomain(f) =>
                      /\ Has(col.properties, "domain")
                      /\ col.properties["domain"] = [min |-> sub.min, max |-> sub.max]
                /\ ~MatchingDomain(f) =>
                      /\ Has(col.properties, "domain") <=> Has(SlotProperties(f), "domain")
                      /\ Has(col.properties, "domain") =>
                            col.properties["domain"] = SlotProperties(f)["domain"]
                /\ col.dtype.id = (CASE f.type = "INT" -> "int"
                                     [] f.type = "FLOAT" -> "float"
                                     [] OTHER -> "None")

ReverseDomainWitness ==
    \E k \in Processed :
        /\ LastOfName(k)
        /\ proto_in[k].type = "INT"
        /\ Has(proto_in[k], "float_domain")
        /\ ~Has(proto_in[k], "int_domain")
        /\ ~Has(ColumnNamed(proto_in[k].name).properties, "domain")

====
